---- MODULE Spec2Model ----
(***************************************************************************)
(* Model of the excel_af address arithmetic: Row, Column, Cell, Direction  *)
(* and Table.  Python values are tagged records; a string is the sequence  *)
(* of its code points, so that ord(), chr(), str.isdigit(), str.isalpha(), *)
(* int() and str() are computed on characters as the interpreter does.     *)
(***************************************************************************)
EXTENDS Integers, Sequences, FiniteSets, TLC

VARIABLES row, rowOp, column, columnOp, cell, cellOp, table, tableOp,
          directionObj, directionOp, checkerOp, roundOp, sheet, sheetOp

\* the variables of Direction, CellChecker, math_round and CustomSheet
sheetSide == <<directionObj, directionOp, checkerOp, roundOp, sheet, sheetOp>>

vars == <<row, rowOp, column, columnOp, cell, cellOp, table, tableOp,
          sheetSide>>

(***************************************************************************)
(* Bounds of the explored inputs.                                          *)
(***************************************************************************)
MaxRow == 6
MaxRowShift == 5
MaxColShift == 3
MaxAddrLen == 3
MaxSize == 3
FracDigits == 3
MaxFloat == 1300
MaxAccuracy == 2

(***************************************************************************)
(* Python values.                                                          *)
(***************************************************************************)
None == [t |-> "none"]
PyInt(n) == [t |-> "int", v |-> n]
\* a float is kept exactly, as a decimal with FracDigits digits after the
\* separator: PyFloat(n) is n / Unit
PyFloat(n) == [t |-> "float", v |-> n]
Unit == 10 ^ FracDigits
PyStr(s) == [t |-> "str", v |-> s]

IsInt(x) == x.t = "int"
IsStr(x) == x.t = "str"

\* bool(x): None, 0, 0.0 and '' are false; objects without __bool__ are true.
Truthy(x) ==
    CASE x.t = "none" -> FALSE
      [] x.t = "int" -> x.v # 0
      [] x.t = "float" -> x.v # 0
      [] x.t = "str" -> Len(x.v) > 0
      [] OTHER -> TRUE

\* Code points used by the code: ord('A'), ord('Z'), and the ASCII classes
\* that str.isdigit and str.isalpha accept within the explored alphabet.
OrdA == 65
OrdZ == 90
Ord0 == 48
OrdLowerA == 97
OrdMinus == 45

IsDigit(c) == c \in Ord0 .. (Ord0 + 9)
IsAlpha(c) == c \in (OrdA .. OrdZ) \cup (OrdLowerA .. (OrdLowerA + 25))

RECURSIVE Filter(_, _)
\* ''.join([i for i in s if test(i)]), test being "digit" or "alpha"
Filter(s, kind) ==
    IF s = <<>> THEN <<>>
    ELSE LET c == Head(s)
             keep == IF kind = "digit" THEN IsDigit(c) ELSE IsAlpha(c)
         IN  (IF keep THEN <<c>> ELSE <<>>) \o Filter(Tail(s), kind)

RECURSIVE ParseDigits(_)
\* int(s) for a non-empty string of ASCII digits
ParseDigits(s) ==
    IF s = <<>> THEN 0
    ELSE 10 * ParseDigits(SubSeq(s, 1, Len(s) - 1)) + (s[Len(s)] - Ord0)

RECURSIVE NatToStr(_)
NatToStr(n) ==
    IF n < 10 THEN <<Ord0 + n>>
    ELSE Append(NatToStr(n \div 10), Ord0 + (n % 10))

\* str(n) for an int n
IntToStr(n) == IF n < 0 THEN <<OrdMinus>> \o NatToStr(0 - n) ELSE NatToStr(n)

Ok(obj) == [raised |-> "none", self |-> obj]
Raise(kind, obj) == [raised |-> kind, self |-> obj]

(***************************************************************************)
(* Row (core/row.py).  A Row object holds the private base number and the  *)
(* shift; the number property adds them.                                   *)
(***************************************************************************)
NewRow == [t |-> "Row", number |-> 0, shift |-> 0]

Row_shift_ok_mut(shift) == IsInt(shift)
Row_shift_ok(shift) == IsInt(shift) /\ shift.v >= 0

Row_number_ok(number) == IsInt(number) /\ number.v >= 1

Row_shift_setter(self, shift) ==
    IF Row_shift_ok(shift)
    THEN Ok([self EXCEPT !.shift = shift.v])
    ELSE Raise("ValueError", self)

Row_number_setter(self, number) ==
    IF Row_number_ok(number)
    THEN Ok([self EXCEPT !.number = number.v])
    ELSE Raise("ValueError", self)

\* Row(number, shift): the shift is assigned first, then the number
Row_init(number, shift) ==
    LET s1 == Row_shift_setter(NewRow, shift)
        s2 == Row_number_setter(s1.self, number)
    IN  IF s1.raised # "none" THEN Raise(s1.raised, None)
        ELSE IF s2.raised # "none" THEN Raise(s2.raised, None)
        ELSE s2

Row_number_mut(self) == self.number
Row_number(self) == self.number + self.shift

Row_str(self) == IntToStr(Row_number(self))

RowInputs == {None, PyFloat(1)} \cup {PyInt(n) : n \in -1 .. MaxRow}
RowShiftInputs == {None, PyFloat(1)} \cup {PyInt(n) : n \in -1 .. MaxRowShift}

OtherThanRow == <<column, columnOp, cell, cellOp, table, tableOp, sheetSide>>

RowConstruct ==
    \E n \in RowInputs, s \in RowShiftInputs :
        LET r == Row_init(n, s)
        IN  /\ row' = IF r.raised = "none" THEN r.self ELSE row
            /\ rowOp' = [op |-> "Row", number |-> n, shift |-> s,
                         raised |-> r.raised]
            /\ UNCHANGED OtherThanRow

\* Row(number): the shift parameter defaults to 0
RowConstructDefault ==
    \E n \in RowInputs :
        LET r == Row_init(n, PyInt(0))
        IN  /\ row' = IF r.raised = "none" THEN r.self ELSE row
            /\ rowOp' = [op |-> "Row1", number |-> n, shift |-> None,
                         raised |-> r.raised]
            /\ UNCHANGED OtherThanRow

RowSetNumber ==
    /\ row # None
    /\ \E n \in RowInputs :
        LET r == Row_number_setter(row, n)
        IN  /\ row' = r.self
            /\ rowOp' = [op |-> "number", number |-> n, shift |-> None,
                         raised |-> r.raised]
            /\ UNCHANGED OtherThanRow

RowSetShift ==
    /\ row # None
    /\ \E s \in RowShiftInputs :
        LET r == Row_shift_setter(row, s)
        IN  /\ row' = r.self
            /\ rowOp' = [op |-> "shift", number |-> None, shift |-> s,
                         raised |-> r.raised]
            /\ UNCHANGED OtherThanRow

(***************************************************************************)
(* Column (excel_af/column.py).  A Column object holds the private base    *)
(* name (one character) and the shift; the name property is                *)
(* chr(ord(base) + shift).                                                 *)
(***************************************************************************)
NewColumn == [t |-> "Column", name |-> <<>>, shift |-> 0]

Column_name_ok(name) ==
    /\ IsStr(name)
    /\ Len(name.v) = 1
    /\ OrdA <= name.v[1] /\ name.v[1] <= OrdZ

Column_shift_ok_mut(self, shift) ==
    IsInt(shift) /\ 0 <= shift.v /\ shift.v <= 26 - self.name[1] + OrdA
Column_shift_ok(self, shift) ==
    IsInt(shift) /\ 0 <= shift.v /\ shift.v < 26 - self.name[1] + OrdA

Column_shift_setter(self, shift) ==
    IF Column_shift_ok(self, shift)
    THEN Ok([self EXCEPT !.shift = shift.v])
    ELSE Raise("ValueError", self)

\* the name setter replaces the base name and does not look at the shift
Column_name_setter(self, name) ==
    IF Column_name_ok(name)
    THEN Ok([self EXCEPT !.name = name.v])
    ELSE Raise("ValueError", self)

\* Column(name, shift): the name is assigned first, then the shift
Column_init(name, shift) ==
    LET s1 == Column_name_setter(NewColumn, name)
        s2 == Column_shift_setter(s1.self, shift)
    IN  IF s1.raised # "none" THEN Raise(s1.raised, None)
        ELSE IF s2.raised # "none" THEN Raise(s2.raised, None)
        ELSE s2

Column_name_mut(self) == <<self.name[1]>>
Column_name(self) == <<self.name[1] + self.shift>>

Column_str(self) == Column_name(self)

\* 'A', 'B', 'C' and 'X', 'Y', 'Z'
ColumnLetters == {OrdA, OrdA + 1, OrdA + 2, OrdZ - 2, OrdZ - 1, OrdZ}

ColumnNameInputs ==
    {None, PyInt(1)}
    \cup {PyStr(<<c>>) : c \in ColumnLetters}
    \cup {PyStr(<<>>), PyStr(<<OrdLowerA>>), PyStr(<<Ord0 + 1>>),
          PyStr(<<OrdA, OrdA + 1>>), PyStr(<<OrdZ + 1>>), PyStr(<<OrdA - 1>>)}

ColumnShiftInputs ==
    {None, PyFloat(1)} \cup {PyInt(n) : n \in (-1 .. MaxColShift) \cup {24, 25, 26}}

OtherThanColumn == <<row, rowOp, cell, cellOp, table, tableOp, sheetSide>>

ColumnConstruct ==
    \E n \in ColumnNameInputs, s \in ColumnShiftInputs :
        LET r == Column_init(n, s)
        IN  /\ column' = IF r.raised = "none" THEN r.self ELSE column
            /\ columnOp' = [op |-> "Column", name |-> n, shift |-> s,
                            raised |-> r.raised]
            /\ UNCHANGED OtherThanColumn

\* Column(name): the shift parameter defaults to 0
ColumnConstructDefault ==
    \E n \in ColumnNameInputs :
        LET r == Column_init(n, PyInt(0))
        IN  /\ column' = IF r.raised = "none" THEN r.self ELSE column
            /\ columnOp' = [op |-> "Column1", name |-> n, shift |-> None,
                            raised |-> r.raised]
            /\ UNCHANGED OtherThanColumn

ColumnSetName ==
    /\ column # None
    /\ \E n \in ColumnNameInputs :
        LET r == Column_name_setter(column, n)
        IN  /\ column' = r.self
            /\ columnOp' = [op |-> "name", name |-> n, shift |-> None,
                            raised |-> r.raised]
            /\ UNCHANGED OtherThanColumn

ColumnSetShift ==
    /\ column # None
    /\ \E s \in ColumnShiftInputs :
        LET r == Column_shift_setter(column, s)
        IN  /\ column' = r.self
            /\ columnOp' = [op |-> "shift", name |-> None, shift |-> s,
                            raised |-> r.raised]
            /\ UNCHANGED OtherThanColumn

(***************************************************************************)
(* get_instance (excel_af/helpers.py): the instance itself when it already *)
(* has the class, otherwise class_name(instance).                          *)
(***************************************************************************)
get_instance_Row(instance) ==
    IF instance.t = "Row" THEN Ok(instance) ELSE Row_init(instance, PyInt(0))

get_instance_Column(instance) ==
    IF instance.t = "Column" THEN Ok(instance)
    ELSE Column_init(instance, PyInt(0))

(***************************************************************************)
(* Cell (excel_af/cell.py).  A Cell object holds the private address, row  *)
(* and column.                                                             *)
(***************************************************************************)
\* str(x), as the f-string of get_address_from_row_and_column formats it
Format(x) ==
    CASE x.t = "str" -> x.v
      [] x.t = "int" -> IntToStr(x.v)
      [] x.t = "Row" -> Row_str(x)
      [] x.t = "Column" -> Column_str(x)
      [] OTHER -> <<78, 111, 110, 101>>

\* int(''.join(digits)) raises ValueError for an empty string; then Row(row)
\* and Column(column) validate what was extracted
Cell_get_row_and_column_from_address(address) ==
    IF ~IsStr(address) THEN [raised |-> "TypeError"]
    ELSE LET digits == Filter(address.v, "digit")
             letters == Filter(address.v, "alpha")
             r == Row_init(PyInt(ParseDigits(digits)), PyInt(0))
             c == Column_init(PyStr(letters), PyInt(0))
         IN  IF digits = <<>> THEN [raised |-> "ValueError"]
             ELSE IF r.raised # "none" THEN [raised |-> r.raised]
             ELSE IF c.raised # "none" THEN [raised |-> c.raised]
             ELSE [raised |-> "none", row |-> r.self, column |-> c.self]

Cell_get_address_from_row_and_column_mut(row_, column_) ==
    Format(row_) \o Format(column_)
\* f'{column}{row}'
Cell_get_address_from_row_and_column(row_, column_) ==
    Format(column_) \o Format(row_)

MakeCell(address, row_, column_) ==
    [t |-> "Cell", address |-> address, row |-> row_, column |-> column_]

\* Cell(address, row, column): the two forms are told apart by truthiness
Cell_init(address, row_, column_) ==
    IF Truthy(address) /\ ~Truthy(row_) /\ ~Truthy(column_)
    THEN LET rc == Cell_get_row_and_column_from_address(address)
         IN  IF rc.raised # "none" THEN Raise(rc.raised, None)
             ELSE Ok(MakeCell(address.v, rc.row, rc.column))
    ELSE IF ~Truthy(address) /\ Truthy(row_) /\ Truthy(column_)
    THEN LET r == get_instance_Row(row_)
             c == get_instance_Column(column_)
         IN  IF r.raised # "none" THEN Raise(r.raised, None)
             ELSE IF c.raised # "none" THEN Raise(c.raised, None)
             ELSE Ok(MakeCell(
                     Cell_get_address_from_row_and_column(row_, column_),
                     r.self, c.self))
    ELSE Raise("ValueError", None)

\* the address setter stores the address before it parses it
Cell_address_setter(self, address) ==
    LET rc == Cell_get_row_and_column_from_address(address)
        stored == [self EXCEPT !.address =
                      IF IsStr(address) THEN address.v ELSE address]
    IN  IF rc.raised # "none" THEN Raise(rc.raised, stored)
        ELSE Ok([stored EXCEPT !.row = rc.row, !.column = rc.column])

Cell_row_setter(self, row_) ==
    LET r == get_instance_Row(row_)
    IN  IF r.raised # "none" THEN Raise(r.raised, self)
        ELSE Ok([self EXCEPT
                   !.row = r.self,
                   !.address = Cell_get_address_from_row_and_column(
                                   r.self, self.column)])

Cell_column_setter(self, column_) ==
    LET c == get_instance_Column(column_)
    IN  IF c.raised # "none" THEN Raise(c.raised, self)
        ELSE Ok([self EXCEPT
                   !.column = c.self,
                   !.address = Cell_get_address_from_row_and_column(
                                   self.row, c.self)])

\* 'B', 'a', '0', '1', '3'
AddressAlphabet == {OrdA + 1, OrdLowerA, Ord0, Ord0 + 1, Ord0 + 3}

StringsOver(alphabet, maxLen) ==
    UNION {[1 .. n -> alphabet] : n \in 0 .. maxLen}

\* every string over the alphabet up to the bound, and '@B3'
AddressInputs ==
    {None}
    \cup {PyStr(a) : a \in StringsOver(AddressAlphabet, MaxAddrLen)}
    \cup {PyStr(<<OrdA - 1, OrdA + 1, Ord0 + 3>>)}

\* the addresses given together with a row or a column
FewAddressInputs == {None, PyStr(<<>>), PyStr(<<OrdA + 1, Ord0 + 3>>)}

CellRowInputs ==
    {None, PyInt(0), PyInt(1), PyInt(3), PyInt(12), PyInt(-1),
     Row_init(PyInt(2), PyInt(1)).self}

CellColumnInputs ==
    {None, PyStr(<<>>), PyStr(<<OrdA>>), PyStr(<<OrdA + 1>>),
     PyStr(<<OrdLowerA>>), PyStr(<<OrdA, OrdA + 1>>),
     Column_init(PyStr(<<OrdA>>), PyInt(2)).self}

CellArgs ==
    {<<a, None, None>> : a \in AddressInputs}
    \cup (FewAddressInputs \X CellRowInputs \X CellColumnInputs)

OtherThanCell == <<row, rowOp, column, columnOp, table, tableOp, sheetSide>>

\* The program builds one Cell and then assigns to it; cell stays None when
\* the constructor raised.
CellConstruct ==
    /\ cell = None
    /\ \E args \in CellArgs :
        LET r == Cell_init(args[1], args[2], args[3])
        IN  /\ cell' = r.self
            /\ cellOp' = [op |-> "Cell", address |-> args[1],
                          row |-> args[2], column |-> args[3],
                          raised |-> r.raised]
            /\ UNCHANGED OtherThanCell

\* Cell(address=Cell(row=row, column=column).address)
CellRoundTrip ==
    /\ cell = None
    /\ \E r \in CellRowInputs, c \in CellColumnInputs :
        LET first == Cell_init(None, r, c)
            second == Cell_init(PyStr(first.self.address), None, None)
            res == IF first.raised # "none" THEN first ELSE second
        IN  /\ cell' = res.self
            /\ cellOp' = [op |-> "roundtrip", address |-> None,
                          row |-> r, column |-> c, raised |-> res.raised]
            /\ UNCHANGED OtherThanCell

SetterAddressInputs ==
    {None} \cup {PyStr(a) : a \in StringsOver(AddressAlphabet, 2)}

CellSetAddress ==
    /\ cell # None
    /\ \E a \in SetterAddressInputs :
        LET r == Cell_address_setter(cell, a)
        IN  /\ cell' = r.self
            /\ cellOp' = [op |-> "address", address |-> a, row |-> None,
                          column |-> None, raised |-> r.raised]
            /\ UNCHANGED OtherThanCell

CellSetRow ==
    /\ cell # None
    /\ \E n \in CellRowInputs :
        LET r == Cell_row_setter(cell, n)
        IN  /\ cell' = r.self
            /\ cellOp' = [op |-> "row", address |-> None, row |-> n,
                          column |-> None, raised |-> r.raised]
            /\ UNCHANGED OtherThanCell

CellSetColumn ==
    /\ cell # None
    /\ \E c \in CellColumnInputs :
        LET r == Cell_column_setter(cell, c)
        IN  /\ cell' = r.self
            /\ cellOp' = [op |-> "column", address |-> None, row |-> None,
                          column |-> c, raised |-> r.raised]
            /\ UNCHANGED OtherThanCell

(***************************************************************************)
(* Direction (core/direction.py).  Direction strings are only tested for   *)
(* membership in {'horizontal', 'vertical'}, so their text is kept as a    *)
(* TLA+ string.                                                            *)
(***************************************************************************)
PyText(s) == [t |-> "str", text |-> s]

Direction_direction_setter_mut(self, direction) ==
    IF IsStr(direction)
    THEN Ok([self EXCEPT !.direction = direction.text])
    ELSE Raise("ValueError", self)
Direction_direction_setter(self, direction) ==
    IF IsStr(direction) /\ direction.text \in {"horizontal", "vertical"}
    THEN Ok([self EXCEPT !.direction = direction.text])
    ELSE Raise("ValueError", self)

Direction_init(direction) ==
    LET s1 == Direction_direction_setter(
                  [t |-> "Direction", direction |-> ""], direction)
    IN  IF s1.raised # "none" THEN Raise(s1.raised, None) ELSE s1

get_instance_Direction(instance) ==
    IF instance.t = "Direction" THEN Ok(instance)
    ELSE Direction_init(instance)

(***************************************************************************)
(* Table (excel_af/table.py).                                              *)
(***************************************************************************)
Table_size_longitudinal_setter(self, size) ==
    IF size >= 2
    THEN Ok([self EXCEPT !.size_longitudinal = size])
    ELSE Raise("ValueError", self)

Table_size_transverse_setter_mut(self, size) ==
    IF size >= 0
    THEN Ok([self EXCEPT !.size_transverse = size])
    ELSE Raise("ValueError", self)
Table_size_transverse_setter(self, size) ==
    IF size >= 1
    THEN Ok([self EXCEPT !.size_transverse = size])
    ELSE Raise("ValueError", self)

\* Table(first_cell, direction, size_longitudinal, size_transverse)
Table_init(first_cell, direction, size_longitudinal, size_transverse) ==
    LET d == get_instance_Direction(direction)
        blank == [t |-> "Table", first_cell |-> first_cell,
                  direction |-> d.self,
                  size_longitudinal |-> 0, size_transverse |-> 0]
        s1 == Table_size_longitudinal_setter(blank, size_longitudinal)
        s2 == Table_size_transverse_setter(s1.self, size_transverse)
    IN  IF d.raised # "none" THEN Raise(d.raised, None)
        ELSE IF s1.raised # "none" THEN Raise(s1.raised, None)
        ELSE IF s2.raised # "none" THEN Raise(s2.raised, None)
        ELSE s2

Returned(v) == [raised |-> "none", value |-> v]
Thrown(kind) == [raised |-> kind, value |-> None]

\* the address built from the shifted row and column of the first cell
ShiftedAddress(self, row_shift, column_shift) ==
    LET r == Row_init(PyInt(Row_number(self.first_cell.row)),
                      PyInt(row_shift))
        c == Column_init(PyStr(Column_name(self.first_cell.column)),
                         PyInt(column_shift))
        made == Cell_init(None, r.self, c.self)
    IN  IF r.raised # "none" THEN Thrown(r.raised)
        ELSE IF c.raised # "none" THEN Thrown(c.raised)
        ELSE IF made.raised # "none" THEN Thrown(made.raised)
        ELSE Returned(made.self.address)

Table_get_address_noswap(self, shift_longitudinal, shift_transverse) ==
    IF shift_longitudinal > self.size_longitudinal THEN Thrown("ValueError")
    ELSE IF shift_transverse > self.size_transverse THEN Thrown("ValueError")
    ELSE ShiftedAddress(self, shift_longitudinal, shift_transverse)

Table_get_address_nocheck(self, shift_longitudinal, shift_transverse) ==
    IF shift_longitudinal > self.size_longitudinal THEN Thrown("ValueError")
    ELSE IF self.direction.direction = "horizontal"
    THEN ShiftedAddress(self, shift_transverse, shift_longitudinal)
    ELSE ShiftedAddress(self, shift_longitudinal, shift_transverse)

Table_get_address_first(self, shift_longitudinal, shift_transverse) ==
    IF shift_longitudinal > self.size_longitudinal THEN Thrown("ValueError")
    ELSE IF shift_transverse > self.size_transverse THEN Thrown("ValueError")
    ELSE ShiftedAddress(self, 0, 0)
Table_get_address(self, shift_longitudinal, shift_transverse) ==
    IF shift_longitudinal > self.size_longitudinal THEN Thrown("ValueError")
    ELSE IF shift_transverse > self.size_transverse THEN Thrown("ValueError")
    ELSE IF self.direction.direction = "horizontal"
    THEN ShiftedAddress(self, shift_transverse, shift_longitudinal)
    ELSE ShiftedAddress(self, shift_longitudinal, shift_transverse)

Table_get_first_cell_address(self) == self.first_cell.address

\* Cell('A1'), Cell('B3'), Cell('Y9'), Cell('Z2'), Cell(row=12, column='C')
FirstCells ==
    {Cell_init(PyStr(<<OrdA, Ord0 + 1>>), None, None).self,
     Cell_init(PyStr(<<OrdA + 1, Ord0 + 3>>), None, None).self,
     Cell_init(PyStr(<<OrdZ - 1, Ord0 + 9>>), None, None).self,
     Cell_init(PyStr(<<OrdZ, Ord0 + 2>>), None, None).self,
     Cell_init(None, PyInt(12), PyStr(<<OrdA + 2>>)).self}

DirectionInputs ==
    {PyText("horizontal"), PyText("vertical"), PyText("diagonal"), None,
     Direction_init(PyText("vertical")).self}

SizeInputs == 0 .. MaxSize
TableShiftInputs == -1 .. (MaxSize + 1)

OtherThanTable == <<row, rowOp, column, columnOp, cell, cellOp, sheetSide>>

TableOp(op, a, b, raised, value) ==
    [op |-> op, a |-> a, b |-> b, raised |-> raised, value |-> value]

\* a constructor call makes a new object, so the table is built once
TableConstruct ==
    /\ table = None
    /\ \E f \in FirstCells, d \in DirectionInputs,
          sl \in SizeInputs, st \in SizeInputs :
        LET r == Table_init(f, d, sl, st)
        IN  /\ table' = IF r.raised = "none" THEN r.self ELSE table
            /\ tableOp' = TableOp("Table", sl, st, r.raised, None)
            /\ UNCHANGED OtherThanTable

\* Table(first_cell, direction, size_longitudinal): size_transverse is 2
TableConstructDefault ==
    /\ table = None
    /\ \E f \in FirstCells, d \in DirectionInputs, sl \in SizeInputs :
        LET r == Table_init(f, d, sl, 2)
        IN  /\ table' = IF r.raised = "none" THEN r.self ELSE table
            /\ tableOp' = TableOp("Table3", sl, None, r.raised, None)
            /\ UNCHANGED OtherThanTable

TableSetSizeLongitudinal ==
    /\ table # None
    /\ \E sl \in SizeInputs :
        LET r == Table_size_longitudinal_setter(table, sl)
        IN  /\ table' = r.self
            /\ tableOp' = TableOp("size_longitudinal", sl, None, r.raised,
                                  None)
            /\ UNCHANGED OtherThanTable

TableSetSizeTransverse ==
    /\ table # None
    /\ \E st \in SizeInputs :
        LET r == Table_size_transverse_setter(table, st)
        IN  /\ table' = r.self
            /\ tableOp' = TableOp("size_transverse", None, st, r.raised,
                                  None)
            /\ UNCHANGED OtherThanTable

TableGetAddress ==
    /\ table # None
    /\ \E l \in TableShiftInputs, s \in TableShiftInputs :
        LET r == Table_get_address(table, l, s)
        IN  /\ tableOp' = TableOp("get_address", l, s, r.raised, r.value)
            /\ UNCHANGED <<table, OtherThanTable>>

\* get_address(shift_longitudinal): shift_transverse is 0
TableGetAddressDefault ==
    /\ table # None
    /\ \E l \in TableShiftInputs :
        LET r == Table_get_address(table, l, 0)
        IN  /\ tableOp' = TableOp("get_address1", l, 0, r.raised, r.value)
            /\ UNCHANGED <<table, OtherThanTable>>

(***************************************************************************)
(* A Direction object on its own, and Table construction as far as the     *)
(* direction argument decides it.                                          *)
(***************************************************************************)
DirectionTexts ==
    {PyText("horizontal"), PyText("vertical"), PyText("diagonal"),
     PyText("Vertical"), PyText(""), None}

OtherThanDirection ==
    <<row, rowOp, column, columnOp, cell, cellOp, table, tableOp,
      checkerOp, roundOp, sheet, sheetOp>>

DirectionConstruct ==
    \E d \in DirectionTexts :
        LET r == Direction_init(d)
        IN  /\ directionObj' = IF r.raised = "none" THEN r.self
                               ELSE directionObj
            /\ directionOp' = [op |-> "Direction", direction |-> d,
                               raised |-> r.raised, made |-> None]
            /\ UNCHANGED OtherThanDirection

DirectionSetDirection ==
    /\ directionObj # None
    /\ \E d \in DirectionTexts :
        LET r == Direction_direction_setter(directionObj, d)
        IN  /\ directionObj' = r.self
            /\ directionOp' = [op |-> "direction", direction |-> d,
                               raised |-> r.raised, made |-> None]
            /\ UNCHANGED OtherThanDirection

\* Table(first_cell, direction, size_longitudinal, size_transverse) with
\* valid sizes; made is the Table returned, None when the call raised
DirectionTableConstruct ==
    \E f \in FirstCells, d \in DirectionTexts,
       sl \in 2 .. MaxSize, st \in 1 .. MaxSize :
        LET r == Table_init(f, d, sl, st)
        IN  /\ directionOp' = [op |-> "Table", direction |-> d,
                               raised |-> r.raised, made |-> r.self]
            /\ UNCHANGED <<directionObj, OtherThanDirection>>

(***************************************************************************)
(* CellChecker (excel_af/cell_checker.py).  A condition is a callable; the *)
(* explored ones are named, and Condition gives the truth value of what    *)
(* the callable returns for a cell value.                                  *)
(***************************************************************************)
PyBool(b) == [t |-> "bool", v |-> b]

\* "always" is the default lambda x: True; "identity" is lambda x: x
Condition(name, value) ==
    CASE name = "always" -> TRUE
      [] name = "never" -> FALSE
      [] name = "not_none" -> value # None
      [] name = "is_number" -> value.t \in {"int", "float"}
      [] name = "identity" -> Truthy(value)

Conditions == {"always", "never", "not_none", "is_number", "identity"}

CellChecker_init(value, address, condition, error_message) ==
    [t |-> "CellChecker", value |-> value, address |-> address,
     condition |-> condition, error_message |-> error_message]

NoMessage == [text |-> "", quoted |-> <<>>, rest |-> ""]

\* the text is kept as its pieces: the fixed words, the address the
\* f-string puts between backquotes, and what follows the full stop
CellChecker_get_error_message_for_cell(self) ==
    [text |-> "Unacceptable value of the cell", quoted |-> self.address,
     rest |-> ""]

CellChecker_check_mut(self) ==
    [raised |-> "none",
     value |-> PyBool(Condition(self.condition, self.value)),
     message |-> NoMessage]
CellChecker_check(self) ==
    IF Condition(self.condition, self.value)
    THEN [raised |-> "none", value |-> PyBool(TRUE), message |-> NoMessage]
    ELSE [raised |-> "ValueError", value |-> None,
          message |-> [CellChecker_get_error_message_for_cell(self)
                          EXCEPT !.rest = self.error_message]]

\* the values a cell can hold: empty, numbers and texts ('a', '12')
CellValues ==
    {None, PyInt(0), PyInt(7), PyInt(-3), PyFloat(0), PyFloat(1156),
     PyFloat(-2600), PyStr(<<OrdLowerA>>), PyStr(<<Ord0 + 1, Ord0 + 2>>)}

\* 'A1', 'B3', 'Z12'
CheckedAddresses ==
    {<<OrdA, Ord0 + 1>>, <<OrdA + 1, Ord0 + 3>>,
     <<OrdZ, Ord0 + 1, Ord0 + 2>>}

ErrorMessages == {"", "The value must be a number."}

OtherThanChecker ==
    <<row, rowOp, column, columnOp, cell, cellOp, table, tableOp,
      directionObj, directionOp, roundOp, sheet, sheetOp>>

CheckerCheck ==
    \E v \in CellValues, a \in CheckedAddresses, c \in Conditions,
       m \in ErrorMessages :
        LET r == CellChecker_check(CellChecker_init(v, a, c, m))
        IN  /\ checkerOp' = [op |-> "check", value |-> v, address |-> a,
                             condition |-> c, raised |-> r.raised,
                             result |-> r.value, message |-> r.message]
            /\ UNCHANGED OtherThanChecker

\* CellChecker(value, address).check(): the default condition and message
CheckerCheckDefault ==
    \E v \in CellValues, a \in CheckedAddresses :
        LET r == CellChecker_check(CellChecker_init(v, a, "always", ""))
        IN  /\ checkerOp' = [op |-> "check_default", value |-> v,
                             address |-> a, condition |-> "always",
                             raised |-> r.raised, result |-> r.value,
                             message |-> r.message]
            /\ UNCHANGED OtherThanChecker

(***************************************************************************)
(* math_round (excel_af/helpers.py, the same text in core/helpers.py).     *)
(***************************************************************************)
\* int(x) of a quotient n / d: the fraction is cut off towards zero
Trunc(n, d) == IF n >= 0 THEN n \div d ELSE 0 - ((0 - n) \div d)

\* int('1' + '0' * digits)
Multiplier(digits) == IF digits > 0 THEN 10 ^ digits ELSE 1

math_round(number, number_of_digits_after_separator) ==
    LET multiplier == Multiplier(number_of_digits_after_separator)
        number_without_separator == number.v * multiplier
        integer_part == Trunc(number_without_separator, Unit)
        first_discarded_digit ==
            Trunc((number_without_separator - integer_part * Unit) * 10,
                  Unit)
        rounded == IF first_discarded_digit >= 5 THEN integer_part + 1
                   ELSE integer_part
    IN  PyFloat((rounded * Unit) \div multiplier)

RoundedNumbers == {PyFloat(n) : n \in (0 - MaxFloat) .. MaxFloat}
Accuracies == 0 .. MaxAccuracy

OtherThanRound ==
    <<row, rowOp, column, columnOp, cell, cellOp, table, tableOp,
      directionObj, directionOp, checkerOp, sheet, sheetOp>>

\* one call of math_round(number, digits) on a chosen input
MathRound ==
    /\ roundOp.op = "none"
    /\ \E x \in RoundedNumbers, d \in Accuracies :
        /\ roundOp' = [op |-> "math_round", number |-> x, digits |-> d,
                       raised |-> "none", result |-> math_round(x, d)]
        /\ UNCHANGED OtherThanRound

\* math_round(number): the digits parameter defaults to 0
MathRoundDefault ==
    /\ roundOp.op = "none"
    /\ \E x \in RoundedNumbers :
        /\ roundOp' = [op |-> "math_round1", number |-> x, digits |-> 0,
                       raised |-> "none", result |-> math_round(x, 0)]
        /\ UNCHANGED OtherThanRound

(***************************************************************************)
(* CustomSheet (excel_af/custom_sheet.py, and set_value of                 *)
(* core/custom_sheet.py).  The sheet handle is the map from the addresses  *)
(* of the non-empty cells to their values: reading any other address gives *)
(* None and writing None empties the cell.  Every method returns its       *)
(* outcome together with the sheet it leaves and the cells it read and     *)
(* wrote, in order.                                                        *)
(***************************************************************************)
EmptySheet == [a \in {} |-> None]

\* self.sheet.range(address).value
Sheet_value(sh, address) ==
    IF address \in DOMAIN sh THEN sh[address] ELSE None

\* self.sheet.range(address).value = value
Sheet_assign(sh, address, value) ==
    IF value = None
    THEN [a \in DOMAIN sh \ {address} |-> sh[a]]
    ELSE [a \in DOMAIN sh \cup {address} |->
             IF a = address THEN value ELSE sh[a]]

PyList(items) == [t |-> "list", v |-> items]

IsDigits(text) == Len(text) > 0 /\ \A i \in 1 .. Len(text) : IsDigit(text[i])

\* float(number) for an int, a float or a text without sign or separator
Float_of(number) ==
    CASE number.t = "float" -> Returned(number)
      [] number.t = "int" -> Returned(PyFloat(number.v * Unit))
      [] number.t = "str" ->
            IF IsDigits(number.v)
            THEN Returned(PyFloat(ParseDigits(number.v) * Unit))
            ELSE Thrown("ValueError")
      [] OTHER -> Thrown("TypeError")

\* int(number): a float is cut towards zero
Int_of(number) ==
    CASE number.t = "int" -> Returned(number)
      [] number.t = "float" -> Returned(PyInt(Trunc(number.v, Unit)))
      [] number.t = "str" ->
            IF IsDigits(number.v)
            THEN Returned(PyInt(ParseDigits(number.v)))
            ELSE Thrown("ValueError")
      [] OTHER -> Thrown("TypeError")

Outcome(raised, value, sh, reads, writes) ==
    [raised |-> raised, value |-> value, sheet |-> sh, reads |-> reads,
     writes |-> writes]

\* cell_checker_kwargs is None or {'condition': c}
CheckerCondition(cell_checker_kwargs) ==
    IF cell_checker_kwargs = None THEN "always"
    ELSE cell_checker_kwargs.condition

CustomSheet_get_number_mut(sh, address, number_type, cell_checker_kwargs) ==
    LET number == Sheet_value(sh, address)
        accepted == Condition(CheckerCondition(cell_checker_kwargs), number)
        converted == IF number_type = "float" THEN Float_of(number)
                     ELSE Int_of(number)
        Done(raised, value) == Outcome(raised, value, sh, <<address>>, <<>>)
    IN  IF ~accepted THEN Done("none", None)
        ELSE IF number = None THEN Done("none", None)
        ELSE IF number_type \in {"float", "int"}
        THEN Done(converted.raised, converted.value)
        ELSE Done("ValueError", None)
CustomSheet_get_number(sh, address, number_type, cell_checker_kwargs) ==
    LET number == Sheet_value(sh, address)
        checked == CellChecker_check(
                       CellChecker_init(number, address,
                           CheckerCondition(cell_checker_kwargs), ""))
        converted == IF number_type = "float" THEN Float_of(number)
                     ELSE Int_of(number)
        Done(raised, value) == Outcome(raised, value, sh, <<address>>, <<>>)
    IN  IF checked.raised # "none" THEN Done(checked.raised, None)
        ELSE IF ~checked.value.v THEN Done("none", None)
        ELSE IF number = None THEN Done("none", None)
        ELSE IF number_type \in {"float", "int"}
        THEN Done(converted.raised, converted.value)
        ELSE Done("ValueError", None)

RECURSIVE get_numbers_loop(_, _, _, _, _, _, _)
\* the loop of get_numbers_list from shift_longitudinal on
get_numbers_loop(sh, tbl, number_type, cell_checker_kwargs, shift_longitudinal, numbers_list, reads) ==
    LET Appended(float_value) ==
            IF float_value.raised # "none"
            THEN Outcome(float_value.raised, None, sh,
                         reads \o float_value.reads, <<>>)
            ELSE get_numbers_loop(sh, tbl, number_type,
                     cell_checker_kwargs, shift_longitudinal + 1,
                     Append(numbers_list, float_value.value),
                     reads \o float_value.reads)
        Read(address) ==
            IF address.raised # "none"
            THEN Outcome(address.raised, None, sh, reads, <<>>)
            ELSE Appended(CustomSheet_get_number(sh, address.value,
                              number_type, cell_checker_kwargs))
    IN  IF shift_longitudinal >= tbl.size_longitudinal
        THEN Outcome("none", PyList(numbers_list), sh, reads, <<>>)
        ELSE Read(Table_get_address(tbl, shift_longitudinal, 0))

CustomSheet_get_numbers_list_mut(sh, tbl, number_type, cell_checker_kwargs) ==
    get_numbers_loop(sh, tbl, number_type, cell_checker_kwargs, 1, <<>>,
                     <<>>)
CustomSheet_get_numbers_list(sh, tbl, number_type, cell_checker_kwargs) ==
    get_numbers_loop(sh, tbl, number_type, cell_checker_kwargs, 0, <<>>,
                     <<>>)

\* math_round_af.get_rounded_number, the packaged math_round
get_rounded_number(number, number_of_digits_after_separator) ==
    math_round(number, number_of_digits_after_separator)

Written(sh, address, value) ==
    Outcome("none", None, Sheet_assign(sh, address, value), <<>>,
            <<<<address, value>>>>)

\* excel_af: rounds when accuracy is true and the value is a float
CustomSheet_set_value(sh, value, address, accuracy) ==
    IF Truthy(accuracy) /\ value.t = "float"
    THEN Written(sh, address, get_rounded_number(value, accuracy.v))
    ELSE Written(sh, address, value)

\* core: rounds every float; '0' * None raises TypeError
Core_set_value(sh, value, address, accuracy) ==
    IF value.t = "float"
    THEN IF accuracy = None THEN Outcome("TypeError", None, sh, <<>>, <<>>)
         ELSE Written(sh, address, math_round(value, accuracy.v))
    ELSE Written(sh, address, value)

RECURSIVE set_numbers_loop(_, _, _, _, _, _, _)
\* the loop of set_numbers_list from shift_longitudinal on
set_numbers_loop(sh, tbl, values, accuracy, shift_longitudinal, address, writes) ==
    LET Set(a, w) ==
            set_numbers_loop(w.sheet, tbl, values, accuracy,
                shift_longitudinal + 1, a.value, writes \o w.writes)
        At(a) ==
            IF a.raised # "none"
            THEN Outcome(a.raised, None, sh, <<>>, writes)
            ELSE IF shift_longitudinal >= Len(values)
            THEN Outcome("IndexError", None, sh, <<>>, writes)
            ELSE Set(a, CustomSheet_set_value(sh,
                            values[shift_longitudinal + 1], a.value,
                            accuracy))
    IN  IF shift_longitudinal >= tbl.size_longitudinal
        THEN Outcome("none", PyStr(address), sh, <<>>, writes)
        ELSE At(Table_get_address(tbl, shift_longitudinal, 0))

CustomSheet_set_numbers_list_rollback(sh, tbl, values, accuracy) ==
    LET out == set_numbers_loop(sh, tbl, values, accuracy, 0,
                                Table_get_first_cell_address(tbl), <<>>)
    IN  IF out.raised # "none" THEN [out EXCEPT !.sheet = sh] ELSE out
CustomSheet_set_numbers_list_mut(sh, tbl, values, accuracy) ==
    set_numbers_loop(sh, tbl, values, accuracy, 1,
                     Table_get_first_cell_address(tbl), <<>>)
CustomSheet_set_numbers_list(sh, tbl, values, accuracy) ==
    set_numbers_loop(sh, tbl, values, accuracy, 0,
                     Table_get_first_cell_address(tbl), <<>>)

\* list(data.items())[shift_longitudinal][shift_transverse], None when data
\* is None (AttributeError) or an index is out of range (IndexError)
DataValue_mut(data, shift_longitudinal, shift_transverse) ==
    IF data = None THEN None
    ELSE IF shift_longitudinal >= Len(data.v) THEN None
    ELSE data.v[shift_longitudinal + 1][1]
DataValue(data, shift_longitudinal, shift_transverse) ==
    IF data = None THEN None
    ELSE IF shift_longitudinal >= Len(data.v) THEN None
    ELSE IF shift_transverse >= 2 THEN None
    ELSE data.v[shift_longitudinal + 1][shift_transverse + 1]

RECURSIVE clear_or_fill_loop(_, _, _, _, _, _, _, _)
\* the two nested loops of clear_or_fill_table from the given shifts on
clear_or_fill_loop(sh, tbl, accuracy, data, shift_longitudinal, shift_transverse, address, writes) ==
    LET Set(a, w) ==
            clear_or_fill_loop(w.sheet, tbl, accuracy, data,
                shift_longitudinal, shift_transverse + 1, a.value,
                writes \o w.writes)
        At(a) ==
            IF a.raised # "none"
            THEN Outcome(a.raised, None, sh, <<>>, writes)
            ELSE Set(a, CustomSheet_set_value(sh,
                            DataValue(data, shift_longitudinal,
                                      shift_transverse),
                            a.value, accuracy))
    IN  IF shift_longitudinal >= tbl.size_longitudinal
        THEN Outcome("none", PyStr(address), sh, <<>>, writes)
        ELSE IF shift_transverse >= tbl.size_transverse
        THEN clear_or_fill_loop(sh, tbl, accuracy, data,
                 shift_longitudinal + 1, 0, address, writes)
        ELSE At(Table_get_address(tbl, shift_longitudinal,
                                  shift_transverse))

CustomSheet_clear_or_fill_table_mut(sh, tbl, accuracy, data) ==
    clear_or_fill_loop(sh, tbl, accuracy, data, 0, 1,
                       Table_get_first_cell_address(tbl), <<>>)
CustomSheet_clear_or_fill_table(sh, tbl, accuracy, data) ==
    clear_or_fill_loop(sh, tbl, accuracy, data, 0, 0,
                       Table_get_first_cell_address(tbl), <<>>)

\* the cells of the explored sheets: columns B..E, Y, Z and the first rows
Grid ==
    {<<c, Ord0 + r>> :
        c \in {OrdA + 1, OrdA + 2, OrdA + 3, OrdA + 4, OrdZ - 1, OrdZ},
        r \in 1 .. (MaxSize + 2)}

\* a number that differs from cell to cell
CellIndex(address) == (address[1] - OrdA) * 10 + (address[2] - Ord0)

IntSheet == [a \in Grid |-> PyInt(CellIndex(a))]

FloatSheet == [a \in Grid |-> PyFloat(CellIndex(a) * 101 + 55)]

NegativeSheet == [a \in Grid |-> PyFloat(0 - (CellIndex(a) * 101 + 55))]

\* some cells empty, some holding the texts '12' and 'a', the rest ints
MixedKind(address) == (address[1] - OrdA + address[2] - Ord0) % 4

MixedSheet ==
    [a \in {g \in Grid : MixedKind(g) # 0} |->
        CASE MixedKind(a) = 1 -> PyInt(CellIndex(a))
          [] MixedKind(a) = 2 -> PyStr(<<Ord0 + 1, Ord0 + 2>>)
          [] OTHER -> PyStr(<<OrdLowerA>>)]

\* the content of the sheet when the CustomSheet is opened
Sheets == {EmptySheet, IntSheet, FloatSheet, NegativeSheet, MixedSheet}

\* 'B2', 'C2', 'D2', 'Y1', 'Z1', 'Y3'
SheetAddresses ==
    {<<OrdA + 1, Ord0 + 2>>, <<OrdA + 2, Ord0 + 2>>, <<OrdA + 3, Ord0 + 2>>,
     <<OrdZ - 1, Ord0 + 1>>, <<OrdZ, Ord0 + 1>>, <<OrdZ - 1, Ord0 + 3>>}

NumberTypes == {"float", "int", "decimal"}

CheckerKwargs == {None} \cup {[condition |-> c] : c \in Conditions}

\* Table(Cell('B2'), ...), Table(Cell('Y1'), ...) and Table(Cell('Z1'), ...),
\* either direction
SheetTables ==
    {Table_init(Cell_init(PyStr(a), None, None).self, PyText(d), sl, st).self :
        a \in {<<OrdA + 1, Ord0 + 2>>, <<OrdZ - 1, Ord0 + 1>>,
               <<OrdZ, Ord0 + 1>>},
        d \in {"horizontal", "vertical"},
        sl \in 2 .. MaxSize, st \in 1 .. MaxSize}

SheetAccuracies == {None} \cup {PyInt(n) : n \in Accuracies}

OtherThanSheet ==
    <<row, rowOp, column, columnOp, cell, cellOp, table, tableOp,
      directionObj, directionOp, checkerOp, roundOp>>

\* what a call leaves behind: its arguments, its outcome and the sheet it
\* found
SheetOp(op, args, out, before) ==
    [op |-> op, args |-> args, raised |-> out.raised, value |-> out.value,
     reads |-> out.reads, writes |-> out.writes, before |-> before]

\* the call op(args) ends with the outcome out
Called(op, args, out) ==
    /\ sheet' = out.sheet
    /\ sheetOp' = SheetOp(op, args, out, sheet)
    /\ UNCHANGED OtherThanSheet

GetNumber ==
    /\ sheetOp.op = "none"
    /\ \E a \in SheetAddresses, nt \in NumberTypes, k \in CheckerKwargs :
        Called("get_number",
            [address |-> a, number_type |-> nt, cell_checker_kwargs |-> k],
            CustomSheet_get_number(sheet, a, nt, k))

GetNumbersList ==
    /\ sheetOp.op = "none"
    /\ \E tbl \in SheetTables, nt \in NumberTypes, k \in CheckerKwargs :
        Called("get_numbers_list",
            [table |-> tbl, number_type |-> nt, cell_checker_kwargs |-> k],
            CustomSheet_get_numbers_list(sheet, tbl, nt, k))

SetValueArgs(value, address, accuracy) ==
    [value |-> value, address |-> address, accuracy |-> accuracy]

\* excel_af: set_value(value, address, accuracy)
SetValue ==
    /\ sheetOp.op = "none"
    /\ \E v \in CellValues, a \in SheetAddresses, n \in Accuracies :
        Called("set_value",
            SetValueArgs(v, a, PyInt(n)),
            CustomSheet_set_value(sheet, v, a, PyInt(n)))

\* excel_af: set_value(value, address), accuracy defaults to None
SetValueDefault ==
    /\ sheetOp.op = "none"
    /\ \E v \in CellValues, a \in SheetAddresses :
        Called("set_value",
            SetValueArgs(v, a, None),
            CustomSheet_set_value(sheet, v, a, None))

\* core: set_value(value, address, accuracy)
CoreSetValue ==
    /\ sheetOp.op = "none"
    /\ \E v \in CellValues, a \in SheetAddresses, acc \in SheetAccuracies :
        Called("core_set_value",
            SetValueArgs(v, a, acc),
            Core_set_value(sheet, v, a, acc))

\* the i-th entry of the explored values list: ints, floats and the text
\* 'a' in turn, no two alike
ListValue(i) ==
    CASE i % 4 = 1 -> PyInt(i)
      [] i % 4 = 2 -> PyFloat(1156 + i)
      [] i % 4 = 3 -> PyStr(<<OrdLowerA, Ord0 + i>>)
      [] OTHER -> PyFloat(0 - (2344 + i))

\* values lists of every length up to one more than the longest table, and
\* a list of floats
ValuesLists ==
    {[i \in 1 .. n |-> ListValue(i)] : n \in 0 .. (MaxSize + 1)}
        \cup {[i \in 1 .. MaxSize |-> PyFloat(1156 * i)]}

SetNumbersList ==
    /\ sheetOp.op = "none"
    /\ \E tbl \in SheetTables, vs \in ValuesLists, n \in Accuracies :
        Called("set_numbers_list",
            [table |-> tbl, values |-> vs, accuracy |-> PyInt(n)],
            CustomSheet_set_numbers_list(sheet, tbl, vs, PyInt(n)))

PyDict(items) == [t |-> "dict", v |-> items]

\* dicts {'a1': 1.156, 'a2': 2, 'a3': 3.468, ...} of every size up to one
\* more than the longest table
DataDicts ==
    {PyDict([i \in 1 .. n |->
                <<PyStr(<<OrdLowerA, Ord0 + i>>),
                  IF i % 2 = 1 THEN PyFloat(1156 * i) ELSE PyInt(i)>>]) :
        n \in 0 .. (MaxSize + 1)}

\* the default of the accuracy parameter of clear_or_fill_table
DefaultAccuracy == 2

ClearOrFillArgs(tbl, accuracy, data) ==
    [table |-> tbl, accuracy |-> accuracy, data |-> data]

\* clear_or_fill_table(table): accuracy and data take their defaults
ClearTable ==
    /\ sheetOp.op = "none"
    /\ \E tbl \in SheetTables :
        Called("clear_or_fill_table",
            ClearOrFillArgs(tbl, PyInt(DefaultAccuracy), None),
            CustomSheet_clear_or_fill_table(sheet, tbl,
                PyInt(DefaultAccuracy), None))

\* clear_or_fill_table(table, accuracy, data)
ClearOrFillTable ==
    /\ sheetOp.op = "none"
    /\ \E tbl \in SheetTables, n \in Accuracies,
          data \in DataDicts \cup {None} :
        Called("clear_or_fill_table",
            ClearOrFillArgs(tbl, PyInt(n), data),
            CustomSheet_clear_or_fill_table(sheet, tbl, PyInt(n), data))

NoOp == [op |-> "none", raised |-> "none"]

Init ==
    /\ row = None /\ rowOp = NoOp
    /\ column = None /\ columnOp = NoOp
    /\ cell = None /\ cellOp = NoOp
    /\ table = None /\ tableOp = NoOp
    /\ directionObj = None /\ directionOp = NoOp
    /\ checkerOp = NoOp
    /\ roundOp = NoOp
    /\ sheet = EmptySheet /\ sheetOp = NoOp

NextRow == RowConstruct \/ RowConstructDefault \/ RowSetNumber \/ RowSetShift

SpecRow == Init /\ [][NextRow]_vars

NextColumn ==
    ColumnConstruct \/ ColumnConstructDefault \/ ColumnSetName \/ ColumnSetShift

SpecColumn == Init /\ [][NextColumn]_vars

NextCell ==
    CellConstruct \/ CellRoundTrip \/ CellSetAddress \/ CellSetRow
    \/ CellSetColumn

SpecCell == Init /\ [][NextCell]_vars

NextTable ==
    TableConstruct \/ TableConstructDefault \/ TableSetSizeLongitudinal
    \/ TableSetSizeTransverse \/ TableGetAddress \/ TableGetAddressDefault

SpecTable == Init /\ [][NextTable]_vars

NextDirection ==
    DirectionConstruct \/ DirectionSetDirection \/ DirectionTableConstruct

SpecDirection == Init /\ [][NextDirection]_vars

NextChecker == CheckerCheck \/ CheckerCheckDefault

SpecChecker == Init /\ [][NextChecker]_vars

NextRound == MathRound \/ MathRoundDefault

SpecRound == Init /\ [][NextRound]_vars

\* a CustomSheet opened on a sheet with some content; nothing called yet
InitSheet ==
    /\ row = None /\ rowOp = NoOp
    /\ column = None /\ columnOp = NoOp
    /\ cell = None /\ cellOp = NoOp
    /\ table = None /\ tableOp = NoOp
    /\ directionObj = None /\ directionOp = NoOp
    /\ checkerOp = NoOp
    /\ roundOp = NoOp
    /\ sheet \in Sheets /\ sheetOp = NoOp

NextSheet ==
    \/ GetNumber \/ GetNumbersList
    \/ SetValue \/ SetValueDefault \/ CoreSetValue
    \/ SetNumbersList
    \/ ClearTable \/ ClearOrFillTable

SpecSheet == InitSheet /\ [][NextSheet]_vars

(***************************************************************************)
(* Properties of Row.                                                      *)
(***************************************************************************)
\* s is the decimal numeral of n: digits only, no leading zero, value n
IsDecimalOf(s, n) ==
    /\ Len(s) >= 1
    /\ \A i \in 1 .. Len(s) : IsDigit(s[i])
    /\ Len(s) > 1 => s[1] # Ord0
    /\ ParseDigits(s) = n

RowConstructed == rowOp.op \in {"Row", "Row1"}
RowArgShift == IF rowOp.op = "Row1" THEN PyInt(0) ELSE rowOp.shift

\* C4: for every base number n >= 1 and shift s >= 0 (s = 0 when omitted),
\* Row(n, s) is built, its number is n + s and its str() is the decimal
\* text of n + s.
C4_RowNumberIsBasePlusShift ==
    (/\ RowConstructed
     /\ IsInt(rowOp.number) /\ rowOp.number.v >= 1
     /\ IsInt(RowArgShift) /\ RowArgShift.v >= 0)
    => /\ rowOp.raised = "none"
       /\ Row_number(row) = rowOp.number.v + RowArgShift.v
       /\ IsDecimalOf(Row_str(row), rowOp.number.v + RowArgShift.v)

\* Row(6, 5): a shifted row with a two-digit number
C4_Witness ==
    /\ rowOp.op = "Row" /\ rowOp.raised = "none"
    /\ rowOp.shift.v > 0
    /\ Len(Row_str(row)) = 2

\* C5: a Row never holds an invalid state: a number < 1 or a shift < 0
\* given to the constructor or to a setter raises ValueError, the stored
\* base number stays >= 1 and the stored shift >= 0, and an operation
\* that raises leaves the stored number and shift as they were.
C5_RowStateValid ==
    /\ row # None => (row.number >= 1 /\ row.shift >= 0)
    /\ (rowOp.op \in {"Row", "Row1", "number"}
        /\ IsInt(rowOp.number) /\ rowOp.number.v < 1)
       => rowOp.raised = "ValueError"
    /\ (rowOp.op \in {"Row", "shift"}
        /\ IsInt(rowOp.shift) /\ rowOp.shift.v < 0)
       => rowOp.raised = "ValueError"

C5_RowNeverInvalid ==
    /\ []C5_RowStateValid
    /\ [][rowOp'.raised # "none" => row' = row]_vars

\* a number assignment rejected on an existing shifted Row
C5_Witness ==
    /\ row # None /\ row.shift > 0
    /\ rowOp.op = "number" /\ rowOp.raised = "ValueError"
    /\ IsInt(rowOp.number) /\ rowOp.number.v < 1

(***************************************************************************)
(* Properties of Column.                                                   *)
(***************************************************************************)
ColumnConstructed == columnOp.op \in {"Column", "Column1"}
ColumnArgShift == IF columnOp.op = "Column1" THEN PyInt(0) ELSE columnOp.shift

\* the letters 'A'..'Z' in order
Alphabet == [i \in 1 .. 26 |-> OrdA + i - 1]
PositionOf(c) == CHOOSE i \in 1 .. 26 : Alphabet[i] = c

\* C6: for every accepted Column(letter, s) (s = 0 when omitted), name is
\* the letter s positions after the base letter within 'A'..'Z'.
C6_ColumnNameIsShiftedLetter ==
    (ColumnConstructed /\ columnOp.raised = "none")
    => LET p == PositionOf(columnOp.name.v[1])
       IN  /\ p + ColumnArgShift.v \in 1 .. 26
           /\ Column_name(column) = <<Alphabet[p + ColumnArgShift.v]>>

\* Column('A', 1).name == 'B'
C6_Witness ==
    /\ columnOp.op = "Column" /\ columnOp.raised = "none"
    /\ columnOp.name = PyStr(<<OrdA>>) /\ columnOp.shift = PyInt(1)
    /\ Column_name(column) = <<OrdA + 1>>

\* C7: Column(name, shift) is accepted exactly when name is one letter of
\* 'A'..'Z' and shift is an integer with 0 <= shift <= ord('Z') - ord(name);
\* every other input raises ValueError.
C7_ColumnAcceptedIffInRange ==
    ColumnConstructed
    => LET n == columnOp.name
           s == ColumnArgShift
           single == IsStr(n) /\ Len(n.v) = 1 /\ n.v[1] \in OrdA .. OrdZ
           inRange == single /\ IsInt(s) /\ 0 <= s.v /\ s.v <= OrdZ - n.v[1]
       IN  /\ columnOp.raised = "none" <=> inRange
           /\ ~inRange => columnOp.raised = "ValueError"

\* Column('Z', 1) raises
C7_Witness ==
    /\ columnOp.op = "Column" /\ columnOp.raised = "ValueError"
    /\ columnOp.name = PyStr(<<OrdZ>>) /\ columnOp.shift = PyInt(1)

\* C8: in every state of a Column the effective name is one letter of
\* 'A'..'Z'.
C8_EffectiveNameIsLetter ==
    column # None
    => /\ Len(Column_name(column)) = 1
       /\ Column_name(column)[1] \in OrdA .. OrdZ

(***************************************************************************)
(* Properties of Cell.                                                     *)
(***************************************************************************)
Supplied(x) == x # None

AddressFormOnly ==
    Supplied(cellOp.address) /\ ~Supplied(cellOp.row)
    /\ ~Supplied(cellOp.column)

RowColumnFormOnly ==
    ~Supplied(cellOp.address) /\ Supplied(cellOp.row)
    /\ Supplied(cellOp.column)

\* C9: Cell construction succeeds only when exactly one form is supplied,
\* an address alone or a row and a column together; every other
\* combination of arguments raises ValueError and creates no Cell.
C9_OnlyOneFormAccepted ==
    (cellOp.op = "Cell" /\ ~(AddressFormOnly \/ RowColumnFormOnly))
    => (cellOp.raised = "ValueError" /\ cell = None)

IsUpper(c) == c \in OrdA .. OrdZ

\* one letter followed by digits
LetterThenDigits(a) ==
    /\ Len(a) >= 2
    /\ IsAlpha(a[1])
    /\ \A i \in 2 .. Len(a) : IsDigit(a[i])

\* one letter of 'A'..'Z' followed by the decimal numeral of an n >= 1
CanonicalAddress(a) ==
    /\ Len(a) >= 2
    /\ IsUpper(a[1])
    /\ \A i \in 2 .. Len(a) : IsDigit(a[i])
    /\ a[2] # Ord0

\* Cell(address=Cell(row=n, column=L).address) has row n and column L
RowColumnRoundTrip ==
    (/\ cellOp.op = "roundtrip"
     /\ IsInt(cellOp.row) /\ cellOp.row.v >= 1
     /\ IsStr(cellOp.column) /\ Len(cellOp.column.v) = 1
     /\ IsUpper(cellOp.column.v[1]))
    => /\ cellOp.raised = "none"
       /\ Row_number(cell.row) = cellOp.row.v
       /\ Column_name(cell.column) = cellOp.column.v

\* Cell(address=a) has the letter as column, the digits as row number, and
\* serialising that row and column gives a again
AddressRoundTrip(a) ==
    /\ cellOp.raised = "none"
    /\ Column_name(cell.column) = <<a[1]>>
    /\ Row_number(cell.row) = ParseDigits(Tail(a))
    /\ Cell_get_address_from_row_and_column(cell.row, cell.column) = a

ParsedFromAddress == cellOp.op = "Cell" /\ AddressFormOnly /\ IsStr(cellOp.address)

\* C10 as stated: the row/column round trip, and the address round trip for
\* every address made of one letter followed by digits.
C10_RoundTripAnyLetterDigits ==
    /\ RowColumnRoundTrip
    /\ (ParsedFromAddress /\ LetterThenDigits(cellOp.address.v))
       => AddressRoundTrip(cellOp.address.v)

\* C10 (amended): the row/column round trip holds for every n >= 1 and
\* letter L of 'A'..'Z'; the address round trip holds for every address
\* made of one letter of 'A'..'Z' followed by the decimal numeral, without
\* leading zeros, of a row number n >= 1.
C10_RoundTripCanonical ==
    /\ RowColumnRoundTrip
    /\ (ParsedFromAddress /\ CanonicalAddress(cellOp.address.v))
       => AddressRoundTrip(cellOp.address.v)

\* Cell(address='B13'): row 13, column 'B'
C10_Witness ==
    /\ ParsedFromAddress /\ CanonicalAddress(cellOp.address.v)
    /\ Len(cellOp.address.v) = 3
    /\ cell # None /\ Row_number(cell.row) > 9

(***************************************************************************)
(* Properties of Table.                                                    *)
(***************************************************************************)
GotAddress == tableOp.op \in {"get_address", "get_address1"}

FirstRow == Row_number(table.first_cell.row)
FirstColumn == Column_name(table.first_cell.column)[1]
Vertical == table.direction.direction = "vertical"

\* the address of column letter c and row n
IsAddressOf(a, c, n) ==
    /\ Len(a) >= 2
    /\ a[1] = c /\ IsUpper(c)
    /\ IsDecimalOf(Tail(a), n)

\* C1: when get_address(l, t) (t = 0 when omitted) returns, the result is
\* the address of row r + l and column c + t for a vertical table and of
\* row r + t and column c + l for a horizontal one, r and c being the row
\* and column of the first cell.
C1_GetAddressShiftsFirstCell ==
    (GotAddress /\ tableOp.raised = "none")
    => IF Vertical
       THEN IsAddressOf(tableOp.value, FirstColumn + tableOp.b,
                        FirstRow + tableOp.a)
       ELSE IsAddressOf(tableOp.value, FirstColumn + tableOp.a,
                        FirstRow + tableOp.b)

\* Table(Cell('A1'), 'horizontal', 3).get_address(1) == 'B1'
C1_Witness ==
    /\ tableOp.op = "get_address1" /\ tableOp.raised = "none"
    /\ tableOp.a = 1
    /\ ~Vertical /\ table.size_longitudinal = 3
    /\ table.first_cell.address = <<OrdA, Ord0 + 1>>
    /\ tableOp.value = <<OrdA + 1, Ord0 + 1>>

\* C2: get_address raises ValueError and returns nothing whenever
\* shift_longitudinal exceeds size_longitudinal or shift_transverse exceeds
\* size_transverse, whatever the direction.
C2_TooLargeShiftRaises ==
    (GotAddress /\ (tableOp.a > table.size_longitudinal
                    \/ tableOp.b > table.size_transverse))
    => (tableOp.raised = "ValueError" /\ tableOp.value = None)

\* a transverse shift above size_transverse, refused on a vertical table
\* whose first column is 'A'
C2_Witness ==
    /\ tableOp.op = "get_address" /\ tableOp.raised = "ValueError"
    /\ Vertical /\ FirstColumn = OrdA
    /\ tableOp.a \in 0 .. table.size_longitudinal
    /\ tableOp.b > table.size_transverse

\* offsets of a returned address from the first cell
ColumnOffset == tableOp.value[1] - FirstColumn
RowOffset == ParseDigits(Tail(tableOp.value)) - FirstRow

\* C3: every address get_address returns lies in the table: its
\* longitudinal offset from the first cell is in 0..size_longitudinal-1
\* and its transverse offset in 0..size_transverse-1.
C3_AddressInsideTable ==
    (GotAddress /\ tableOp.raised = "none")
    => LET longitudinal == IF Vertical THEN RowOffset ELSE ColumnOffset
           transverse == IF Vertical THEN ColumnOffset ELSE RowOffset
       IN  /\ longitudinal \in 0 .. (table.size_longitudinal - 1)
           /\ transverse \in 0 .. (table.size_transverse - 1)

(***************************************************************************)
(* Properties of Direction.                                                *)
(***************************************************************************)
ValidDirectionText(d) ==
    IsStr(d) /\ d.text \in {"horizontal", "vertical"}

C11_DirectionStateValid ==
    /\ directionObj # None
       => directionObj.direction \in {"horizontal", "vertical"}
    /\ (directionOp.op \in {"Direction", "direction", "Table"}
        /\ ~ValidDirectionText(directionOp.direction))
       => (directionOp.raised = "ValueError" /\ directionOp.made = None)
    /\ (directionOp.op = "Table" /\ directionOp.raised = "none")
       => directionOp.made.direction.direction
              \in {"horizontal", "vertical"}

\* C11: a Direction only ever holds 'horizontal' or 'vertical': building or
\* assigning any other value raises ValueError, a rejected assignment
\* leaves the previous direction in place, and Table construction with a
\* direction string outside the set raises the same error.
C11_DirectionNeverInvalid ==
    /\ []C11_DirectionStateValid
    /\ [][directionOp'.raised # "none" => directionObj' = directionObj]_vars

\* an assignment of 'diagonal' rejected on an existing Direction
C11_Witness ==
    /\ directionObj # None
    /\ directionOp.op = "direction" /\ directionOp.raised = "ValueError"
    /\ directionOp.direction = PyText("diagonal")

(***************************************************************************)
(* Properties of the Table sizes.                                          *)
(***************************************************************************)
C12_TableSizesValid ==
    /\ table # None
       => (table.size_longitudinal >= 2 /\ table.size_transverse >= 1)
    /\ (tableOp.op \in {"Table", "Table3", "size_longitudinal"}
        /\ tableOp.a < 2)
       => tableOp.raised = "ValueError"
    /\ (tableOp.op \in {"Table", "size_transverse"} /\ tableOp.b < 1)
       => tableOp.raised = "ValueError"
    /\ (tableOp.op = "Table3" /\ tableOp.raised = "none")
       => table.size_transverse = 2

\* C12: a Table's sizes are always valid: size_longitudinal < 2 or
\* size_transverse < 1 given to the constructor or to a setter raises
\* ValueError, size_transverse is 2 when omitted, the stored sizes stay
\* >= 2 and >= 1, and a call that raises leaves the stored sizes unchanged.
C12_TableSizesNeverInvalid ==
    /\ []C12_TableSizesValid
    /\ [][tableOp'.raised # "none" => table' = table]_vars

\* a size_transverse assignment of 0 rejected on an existing Table
C12_Witness ==
    /\ table # None
    /\ tableOp.op = "size_transverse" /\ tableOp.raised = "ValueError"
    /\ tableOp.b = 0

(***************************************************************************)
(* Properties of CellChecker.                                              *)
(***************************************************************************)
Checked == checkerOp.op \in {"check", "check_default"}

\* the message of the error names the address of the cell
MessageNamesAddress ==
    /\ checkerOp.message.text = "Unacceptable value of the cell"
    /\ checkerOp.message.quoted = checkerOp.address

\* C13: check() returns True for every value under the default condition
\* and whenever the supplied condition accepts the value, raises
\* ValueError naming the cell address when the condition rejects it, and
\* never returns False.
C13_CheckTrueOrRaises ==
    Checked
    => /\ checkerOp.op = "check_default"
          => (checkerOp.raised = "none" /\ checkerOp.result = PyBool(TRUE))
       /\ Condition(checkerOp.condition, checkerOp.value)
          => (checkerOp.raised = "none" /\ checkerOp.result = PyBool(TRUE))
       /\ ~Condition(checkerOp.condition, checkerOp.value)
          => (/\ checkerOp.raised = "ValueError"
              /\ checkerOp.result = None
              /\ MessageNamesAddress)
       /\ checkerOp.result # PyBool(FALSE)

\* an empty cell rejected by a condition, the error naming 'B3'
C13_Witness ==
    /\ checkerOp.op = "check" /\ checkerOp.raised = "ValueError"
    /\ checkerOp.value = None /\ checkerOp.condition = "not_none"
    /\ checkerOp.address = <<OrdA + 1, Ord0 + 3>>
    /\ MessageNamesAddress

(***************************************************************************)
(* Properties of math_round.                                               *)
(***************************************************************************)
Abs(n) == IF n >= 0 THEN n ELSE 0 - n

\* r is the multiple of step nearest to x, a tie going to the larger
\* magnitude
NearestMultiple(r, x, step) ==
    /\ r % step = 0
    /\ 2 * Abs(r - x) <= step
    /\ 2 * Abs(r - x) = step => Abs(r) > Abs(x)

\* C20: math_round(x, d) is the multiple of 10^-d nearest to x, a first
\* discarded digit of 5 or more rounding the magnitude up, for every x,
\* negative ones included.
C20_RoundsToNearest ==
    roundOp.op \in {"math_round", "math_round1"}
    => NearestMultiple(roundOp.result.v, roundOp.number.v,
                       Unit \div (10 ^ roundOp.digits))

\* what holds of the code: the property for x >= 0
C20_RoundsToNearestNonNegative ==
    (roundOp.op \in {"math_round", "math_round1"} /\ roundOp.number.v >= 0)
    => NearestMultiple(roundOp.result.v, roundOp.number.v,
                       Unit \div (10 ^ roundOp.digits))

(***************************************************************************)
(* Properties of CustomSheet.get_number.                                   *)
(***************************************************************************)
\* the value the cell of the call held, and what the predicate says of it
RawValue == Sheet_value(sheetOp.before, sheetOp.args.address)
Accepted ==
    Condition(CheckerCondition(sheetOp.args.cell_checker_kwargs), RawValue)

IsNumber(v) == v.t \in {"int", "float"}

\* a number as a count of 10^-FracDigits
Scaled(number) == IF number.t = "int" THEN number.v * Unit ELSE number.v

\* result is number as the requested type: the same number for 'float',
\* the number cut towards zero for 'int'
CoercedTo(number_type, number, result) ==
    IF number_type = "float"
    THEN result.t = "float" /\ result.v = Scaled(number)
    ELSE /\ result.t = "int"
         /\ Abs(result.v * Unit) <= Abs(Scaled(number))
         /\ Abs(Scaled(number) - result.v * Unit) < Unit

GotNumber ==
    sheetOp.op = "get_number" /\ sheetOp.args.number_type \in {"float", "int"}

\* C14 as stated: get_number returns None when the cell is empty or its
\* value fails the predicate, and otherwise the value coerced to the
\* requested type.
C14_NoneWhenNullOrRejected ==
    GotNumber =>
        IF RawValue = None \/ ~Accepted
        THEN sheetOp.raised = "none" /\ sheetOp.value = None
        ELSE IsNumber(RawValue) =>
                /\ sheetOp.raised = "none"
                /\ CoercedTo(sheetOp.args.number_type, RawValue,
                             sheetOp.value)

\* C14 amended: get_number raises ValueError when the predicate rejects
\* the value (empty or not); it returns None for an empty cell the
\* predicate accepts; an accepted number comes back coerced to the
\* requested type, and an accepted text comes back as a number only when
\* it is made of digits, anything else raising ValueError.  The sheet is
\* left as it was.
C14_NoneWhenNullElseRaisesOrCoerces ==
    GotNumber =>
        /\ sheet = sheetOp.before
        /\ IF ~Accepted
           THEN sheetOp.raised = "ValueError" /\ sheetOp.value = None
           ELSE IF RawValue = None
           THEN sheetOp.raised = "none" /\ sheetOp.value = None
           ELSE IF IsNumber(RawValue)
           THEN /\ sheetOp.raised = "none"
                /\ CoercedTo(sheetOp.args.number_type, RawValue,
                             sheetOp.value)
           ELSE IF IsDigits(RawValue.v)
           THEN /\ sheetOp.raised = "none"
                /\ CoercedTo(sheetOp.args.number_type,
                             PyInt(ParseDigits(RawValue.v)), sheetOp.value)
           ELSE sheetOp.raised = "ValueError" /\ sheetOp.value = None

\* a rejected number has raised, not returned None
C14_Witness ==
    /\ GotNumber
    /\ IsNumber(RawValue) /\ ~Accepted
    /\ sheetOp.raised = "ValueError"

\* C15: get_number raises the invalid-argument error for every number_type
\* other than 'float' and 'int', whatever the cell holds, an empty cell
\* included.
C15_UnknownTypeAlwaysRaises ==
    (sheetOp.op = "get_number"
        /\ sheetOp.args.number_type \notin {"float", "int"})
    => sheetOp.raised = "ValueError"

(***************************************************************************)
(* Properties of CustomSheet.get_numbers_list.                             *)
(***************************************************************************)
\* the i-th cell of the table's first line and what get_number gives for
\* it on the sheet the call found
ListAddress(i) == Table_get_address(sheetOp.args.table, i, 0)
ListNumber(i) ==
    CustomSheet_get_number(sheetOp.before, ListAddress(i).value,
        sheetOp.args.number_type, sheetOp.args.cell_checker_kwargs)
ListError(i) ==
    IF ListAddress(i).raised # "none" THEN ListAddress(i).raised
    ELSE ListNumber(i).raised

Least(S) == CHOOSE i \in S : \A j \in S : i <= j

C16_RejectionReached ==
    /\ sheetOp.op = "get_numbers_list"
    /\ sheetOp.raised = "ValueError"
    /\ Len(sheetOp.reads) > 1

(***************************************************************************)
(* Properties of CustomSheet.set_value.                                    *)
(***************************************************************************)
\* written is what the write path owes for value under accuracy: a float
\* rounded to accuracy decimals when an accuracy is given, else the value
RoundedAsRequested(value, accuracy, written) ==
    IF value.t = "float" /\ accuracy # None
    THEN /\ written.t = "float"
         /\ NearestMultiple(written.v, value.v, Unit \div (10 ^ accuracy.v))
    ELSE written = value

\* C17: set_value writes exactly the cell at the given address; a float is
\* written rounded to the requested decimals for every accuracy >= 0, 0
\* included; any other value, and a float with no accuracy, is written
\* unchanged; core and excel_af write the same for the same arguments.
C17_SetValueRoundsAndAgrees ==
    sheetOp.op \in {"set_value", "core_set_value"} =>
        LET value == sheetOp.args.value
            address == sheetOp.args.address
            accuracy == sheetOp.args.accuracy
            excel == CustomSheet_set_value(sheetOp.before, value, address,
                                           accuracy)
            core == Core_set_value(sheetOp.before, value, address, accuracy)
        IN  /\ sheetOp.raised = "none"
            /\ Len(sheetOp.writes) = 1
            /\ sheetOp.writes[1][1] = address
            /\ RoundedAsRequested(value, accuracy, sheetOp.writes[1][2])
            /\ sheet = Sheet_assign(sheetOp.before, address,
                                    sheetOp.writes[1][2])
            /\ excel.raised = core.raised
            /\ excel.sheet = core.sheet

(***************************************************************************)
(* Properties of CustomSheet.set_numbers_list.                             *)
(***************************************************************************)
\* what set_value puts in a cell for value under accuracy
AsWritten(value, accuracy) ==
    CustomSheet_set_value(EmptySheet, value, <<>>, accuracy).writes[1][2]

\* the cells at the addresses of the set S are as they were before the
\* call, on the sheet it found and on the sheet it left
SameOutside(S) ==
    \A a \in (DOMAIN sheet \cup DOMAIN sheetOp.before) \ S :
        Sheet_value(sheet, a) = Sheet_value(sheetOp.before, a)

LineAddress(i) == Table_get_address(sheetOp.args.table, i, 0)

\* the cells 0 .. (k - 1) of the line were written with their values, in
\* this order, and nothing else was
WroteLineUpTo(k) ==
    /\ Len(sheetOp.writes) = k
    /\ \A i \in 0 .. (k - 1) :
           /\ sheetOp.writes[i + 1] =
                  <<LineAddress(i).value,
                    AsWritten(sheetOp.args.values[i + 1],
                              sheetOp.args.accuracy)>>
           /\ Sheet_value(sheet, LineAddress(i).value) =
                  sheetOp.writes[i + 1][2]
    /\ SameOutside({LineAddress(i).value : i \in 0 .. (k - 1)})

LineFits ==
    \A i \in 0 .. (sheetOp.args.table.size_longitudinal - 1) :
        LineAddress(i).raised = "none"

SetList ==
    /\ sheetOp.op = "set_numbers_list"
    /\ Len(sheetOp.args.values) >= sheetOp.args.table.size_longitudinal

\* C18 as stated: with at least size_longitudinal values, set_numbers_list
\* writes values[i] to the cell at longitudinal shift i, transverse shift
\* 0, for i = 0 .. size_longitudinal - 1 in increasing order, no other
\* cell, and returns get_address(size_longitudinal - 1), for every table.
C18_WritesLine ==
    SetList =>
        LET n == sheetOp.args.table.size_longitudinal
        IN  /\ sheetOp.raised = "none"
            /\ WroteLineUpTo(n)
            /\ sheetOp.value = PyStr(LineAddress(n - 1).value)

\* C18 amended: the same for a table whose line stays within columns
\* 'A'..'Z', each value written as set_value writes it; a table whose line
\* runs past column 'Z' gets the cells before the overflow written and
\* the call then raises ValueError.
C18_WritesLineWithinColumns ==
    SetList =>
        LET n == sheetOp.args.table.size_longitudinal
            beyond == {i \in 0 .. (n - 1) : LineAddress(i).raised # "none"}
        IN  IF LineFits
            THEN /\ sheetOp.raised = "none"
                 /\ WroteLineUpTo(n)
                 /\ sheetOp.value = PyStr(LineAddress(n - 1).value)
            ELSE /\ sheetOp.raised = "ValueError"
                 /\ WroteLineUpTo(Least(beyond))

\* a line was written from a longer list over a sheet that had content
C18_Witness ==
    /\ SetList /\ LineFits
    /\ sheetOp.raised = "none"
    /\ Len(sheetOp.args.values) > sheetOp.args.table.size_longitudinal
    /\ Len(sheetOp.writes) = MaxSize
    /\ sheetOp.before # EmptySheet
    /\ sheet # sheetOp.before

(***************************************************************************)
(* Properties of CustomSheet.clear_or_fill_table called without data.      *)
(***************************************************************************)
\* the k-th cell of the rectangle, the longitudinal shift being the outer
\* loop and the transverse shift the inner one
RectAddress(k) ==
    Table_get_address(sheetOp.args.table,
                      k \div sheetOp.args.table.size_transverse,
                      k % sheetOp.args.table.size_transverse)

RectSize ==
    sheetOp.args.table.size_longitudinal * sheetOp.args.table.size_transverse

\* the first k cells of the rectangle were emptied, each once, in this
\* order, and every other cell is as it was
ClearedUpTo(k) ==
    /\ Len(sheetOp.writes) = k
    /\ \A i \in 0 .. (k - 1) :
           /\ sheetOp.writes[i + 1] = <<RectAddress(i).value, None>>
           /\ Sheet_value(sheet, RectAddress(i).value) = None
    /\ \A i, j \in 1 .. k :
           i # j => sheetOp.writes[i][1] # sheetOp.writes[j][1]
    /\ SameOutside({RectAddress(i).value : i \in 0 .. (k - 1)})

Cleared ==
    sheetOp.op = "clear_or_fill_table" /\ sheetOp.args.data = None

\* C19 as stated: without data, clear_or_fill_table empties every cell of
\* the size_longitudinal x size_transverse rectangle exactly once,
\* longitudinal shift outer and transverse shift inner, leaves every other
\* cell unchanged and returns get_address(size_longitudinal - 1,
\* size_transverse - 1), for every table.
C19_ClearsRectangle ==
    Cleared =>
        /\ sheetOp.raised = "none"
        /\ ClearedUpTo(RectSize)
        /\ sheetOp.value = PyStr(RectAddress(RectSize - 1).value)

\* C19 amended: the same for a table whose rectangle stays within columns
\* 'A'..'Z'; a table whose rectangle runs past column 'Z' gets the cells
\* visited before the overflow emptied and the call then raises
\* ValueError.
C19_ClearsRectangleWithinColumns ==
    Cleared =>
        LET beyond == {k \in 0 .. (RectSize - 1) :
                          RectAddress(k).raised # "none"}
        IN  IF beyond = {}
            THEN /\ sheetOp.raised = "none"
                 /\ ClearedUpTo(RectSize)
                 /\ sheetOp.value = PyStr(RectAddress(RectSize - 1).value)
            ELSE /\ sheetOp.raised = "ValueError"
                 /\ ClearedUpTo(Least(beyond))

\* a rectangle of two transverse lines was emptied on a sheet whose cells
\* all had content
C19_Witness ==
    /\ Cleared
    /\ sheetOp.raised = "none"
    /\ sheetOp.args.table.size_transverse = 2
    /\ Len(sheetOp.writes) = 2 * MaxSize
    /\ sheetOp.before = IntSheet
    /\ \A a \in Grid \ {RectAddress(k).value : k \in 0 .. (RectSize - 1)} :
           Sheet_value(sheet, a) # None

(***************************************************************************)
(* Properties of the Cell setters.                                         *)
(***************************************************************************)
\* the stored address is the column's name followed by the row's number
AddressOfRowAndColumn ==
    cell # None =>
        /\ cell.address # None
        /\ cell.address =
               Column_name(cell.column) \o NatToStr(Row_number(cell.row))

\* C21: in every state of a Cell reached by construction and any sequence
\* of address, row and column assignments, accepted or raising, the stored
\* address is the column's name followed by the row's number; an address
\* assignment that raises leaves address, row and column as they were.
C21_AddressFollowsRowAndColumn ==
    /\ []AddressOfRowAndColumn
    /\ [][(cellOp'.op = "address" /\ cellOp'.raised # "none")
              => cell' = cell]_vars

\* c = Cell('B3'); c.address = 'B0' has raised and left address 'B0' with
\* row 3 and column 'B'
C21_StaleAddress ==
    /\ cellOp.op = "address" /\ cellOp.raised = "ValueError"
    /\ cellOp.address = PyStr(<<OrdA + 1, Ord0>>)
    /\ cell.address = <<OrdA + 1, Ord0>>
    /\ Row_number(cell.row) = 3
    /\ Column_name(cell.column) = <<OrdA + 1>>

(***************************************************************************)
(* Properties of the addresses of a table inside the bulk operations.      *)
(***************************************************************************)
Bulk ==
    sheetOp.op \in {"get_numbers_list", "set_numbers_list",
                    "clear_or_fill_table"}

\* the pairs of shifts inside the table of the call, and those the call
\* visits: the first line for the list operations, the whole rectangle for
\* clear_or_fill_table
InsidePairs ==
    (0 .. (sheetOp.args.table.size_longitudinal - 1))
        \X (0 .. (sheetOp.args.table.size_transverse - 1))

VisitedPairs ==
    IF sheetOp.op = "clear_or_fill_table" THEN InsidePairs
    ELSE {p \in InsidePairs : p[2] = 0}

\* the column of the cell at the pair of shifts p is not after 'Z'
ColumnWithinZ(p) ==
    Column_name(sheetOp.args.table.first_cell.column)[1]
        + (IF sheetOp.args.table.direction.direction = "horizontal"
           THEN p[1] ELSE p[2]) <= OrdZ

AddressOfPair(p) == Table_get_address(sheetOp.args.table, p[1], p[2])

\* the call did not end with an error of an address of the table
NoAddressError ==
    CASE sheetOp.op = "get_numbers_list" ->
            sheetOp.raised # "none" =>
                \E i \in 0 .. (sheetOp.args.table.size_longitudinal - 1) :
                    /\ ListAddress(i).raised = "none"
                    /\ ListNumber(i).raised = sheetOp.raised
      [] OTHER -> sheetOp.raised # "ValueError"

Filled ==
    sheetOp.op = "clear_or_fill_table" /\ sheetOp.args.data # None

\* what the k-th cell of the rectangle is owed: the key of the entry of
\* its longitudinal shift on transverse line 0, the entry's value on line
\* 1, as set_value writes them, and nothing where data has no entry
DataOfCell(k) ==
    LET i == k \div sheetOp.args.table.size_transverse
        j == k % sheetOp.args.table.size_transverse
    IN  IF i < Len(sheetOp.args.data.v) /\ j < 2
        THEN AsWritten(sheetOp.args.data.v[i + 1][j + 1],
                       sheetOp.args.accuracy)
        ELSE None

\* the first k cells of the rectangle got their data, in the order of the
\* loops, and every other cell is as it was
FilledUpTo(k) ==
    /\ Len(sheetOp.writes) = k
    /\ \A i \in 0 .. (k - 1) :
           /\ sheetOp.writes[i + 1] = <<RectAddress(i).value, DataOfCell(i)>>
           /\ Sheet_value(sheet, RectAddress(i).value) = DataOfCell(i)
    /\ SameOutside({RectAddress(i).value : i \in 0 .. (k - 1)})

\* C23 as stated: with a data mapping, clear_or_fill_table writes the
\* i-th key to the cell at (i, 0) and the i-th value to the cell at (i, 1)
\* and empties the cells with i >= len(data) or j >= 2, for every table,
\* so that an empty mapping clears the whole table.
C23_FillsKeysAndValues ==
    Filled =>
        /\ sheetOp.raised = "none"
        /\ FilledUpTo(RectSize)

\* C23 amended: the same for a table whose rectangle stays within columns
\* 'A'..'Z', a float value being written rounded as set_value rounds it
\* under the given accuracy; a table whose rectangle runs past column 'Z'
\* gets the cells visited before the overflow written and the call then
\* raises ValueError.
C23_FillsKeysAndValuesWithinColumns ==
    Filled =>
        LET beyond == {k \in 0 .. (RectSize - 1) :
                          RectAddress(k).raised # "none"}
        IN  IF beyond = {}
            THEN /\ sheetOp.raised = "none"
                 /\ FilledUpTo(RectSize)
                 /\ sheetOp.value = PyStr(RectAddress(RectSize - 1).value)
            ELSE /\ sheetOp.raised = "ValueError"
                 /\ FilledUpTo(Least(beyond))

\* a table of three transverse lines was filled from data with fewer
\* entries than lines: keys, values, and emptied cells
C23_Witness ==
    /\ Filled
    /\ sheetOp.raised = "none"
    /\ sheetOp.before = IntSheet
    /\ sheetOp.args.table.size_transverse = 3
    /\ Len(sheetOp.args.data.v) = 2
    /\ sheetOp.args.table.size_longitudinal = 3
    /\ sheetOp.writes[1][2].t = "str"
    /\ sheetOp.writes[2][2].t = "float"
    /\ sheetOp.writes[3][2] = None
    /\ sheetOp.writes[7][2] = None

(***************************************************************************)
(* Properties of CustomSheet.set_numbers_list given too few values.        *)
(***************************************************************************)
Underfed ==
    /\ sheetOp.op = "set_numbers_list"
    /\ Len(sheetOp.args.values) < sheetOp.args.table.size_longitudinal

\* the shifts of the line whose column is after 'Z'
BeyondZ ==
    {i \in 0 .. (sheetOp.args.table.size_longitudinal - 1) :
        LineAddress(i).raised # "none"}

\* C24 as stated: given fewer values than size_longitudinal,
\* set_numbers_list writes the cells at shifts 0 .. len(values) - 1 in
\* order and then raises; the written cells keep their new values and the
\* cells at shifts >= len(values) are unchanged, for every table.
C24_WritesValuesThenRaises ==
    Underfed =>
        /\ sheetOp.raised # "none"
        /\ WroteLineUpTo(Len(sheetOp.args.values))

\* C24 amended: the same when the cells at shifts 0 .. len(values) - 1 lie
\* within columns 'A'..'Z', the error being IndexError, or ValueError when
\* the cell at shift len(values) is after 'Z'; when one of the first
\* len(values) cells is after 'Z' only the cells before it are written
\* and ValueError is raised.
C24_WritesValuesWithinColumnsThenRaises ==
    Underfed =>
        LET given == Len(sheetOp.args.values)
            within == \A i \in BeyondZ : i >= given
        IN  IF within
            THEN /\ WroteLineUpTo(given)
                 /\ sheetOp.raised =
                        IF given \in BeyondZ THEN "ValueError"
                        ELSE "IndexError"
            ELSE /\ WroteLineUpTo(Least(BeyondZ))
                 /\ sheetOp.raised = "ValueError"

\* all values but the last cell's were written over a sheet with content
\* before IndexError
C24_Witness ==
    /\ Underfed
    /\ sheetOp.args.table.size_longitudinal = MaxSize
    /\ Len(sheetOp.args.values) = MaxSize - 1
    /\ sheetOp.raised = "IndexError"
    /\ Len(sheetOp.writes) = MaxSize - 1
    /\ sheetOp.before = IntSheet
    /\ sheet # sheetOp.before

====
